---------------------------- MODULE Spec2Model ----------------------------
(***************************************************************************)
(* Session chat history of the NoteBot application: ChatMessage            *)
(* validation, ChatHistoryManager (bounded history with pair eviction,      *)
(* conversation context), StorageHandler (best-effort persistence with a    *)
(* tri-state status) and SessionManager (document / vector-store state).    *)
(*                                                                          *)
(* st.session_state is the state of the model: each key the code reads or   *)
(* writes is a variable.  Python objects that are shared by reference (the  *)
(* history list stored in the persisted mapping, the message dictionaries   *)
(* shared by a list and its shallow copy) are modelled with their sharing.  *)
(***************************************************************************)
EXTENDS Integers, Sequences, FiniteSets, TLC

VARIABLES
    chat_history,         \* st.session_state.chat_history: sequence of message dicts
    persisted_chat_data,  \* st.session_state.persisted_chat_data (the persisted snapshot)
    storage_status,       \* st.session_state.storage_status
    session_id,           \* st.session_state.session_id
    document_metadata,    \* st.session_state.document_metadata
    vector_store_ready,   \* st.session_state.vector_store_ready
    last_call,            \* the most recent call: its name and the exception it raised
    added,                \* history variable: the messages (identity and role) that
                          \* add_message appended since the last clear, in order
    returned              \* the caller's value obtained from get_chat_history()

vars == <<chat_history, persisted_chat_data, storage_status, session_id,
          document_metadata, vector_store_ready, last_call, added, returned>>

sessionVars == <<session_id, document_metadata, vector_store_ready>>
storageVars == <<persisted_chat_data, storage_status>>

-----------------------------------------------------------------------------
(* Bounds of the model.                                                     *)

\* add_message calls that succeed between two clears
MaxAdds == 54
\* the caller picks role and metadata freely for the first MaxFree messages
\* after a clear; later messages answer in turn (user, assistant, user, ...)
MaxFree == 2
\* SpecShort: successful add_message calls between two clears
MaxShortAdds == 4
\* largest last_n passed to get_conversation_context
MaxLastN == 3
\* changes the caller makes to one list that get_chat_history returned
MaxCallerEdits == 1
\* SpecShort, SpecSave: message dicts created while a list outside the
\* history (a returned list, a saved snapshot) holds an earlier one
MaxRefs == 5
\* SpecMsg: add_message calls that succeed between two clears
MaxMsgAdds == 2
\* SpecSave: add_message calls that succeed between two clears
MaxSaveAdds == 2
\* SpecInit: elements of the stored chat_history
MaxStored == 3
\* SpecChat: add_message calls between two clears, and answers that fail
\* between two clears
MaxChatAdds == 53
MaxFailed == 1
\* SpecMeta: add_message calls that succeed between two clears
MaxMetaAdds == 5
\* SpecSessions: add_message calls of a session between two clears
MaxSessionAdds == 2

(* Program constants.                                                       *)
MAX_MESSAGES == 50
MAX_CONTENT == 10000
WARN_KB == 50
LIMIT_KB == 500

-----------------------------------------------------------------------------
(* Small helpers.                                                           *)

Last(s) == s[Len(s)]

\* Python's s[k:]
DropHead(s, k) == IF k >= Len(s) THEN << >> ELSE SubSeq(s, k + 1, Len(s))

\* Python's s[:-1]
DropLast(s) == IF Len(s) = 0 THEN << >> ELSE SubSeq(s, 1, Len(s) - 1)

\* f[1] + ... + f[n]
RECURSIVE SumTo(_, _)
SumTo(f, n) == IF n = 0 THEN 0 ELSE f[n] + SumTo(f, n - 1)

-----------------------------------------------------------------------------
(* Text.  A string is described by what the code looks at: the number of    *)
(* leading and trailing whitespace characters, the number of characters     *)
(* between them (a body that starts and ends with a non-whitespace          *)
(* character, or is empty) and a tag that tells two texts apart.            *)

Text(tag, lead, body, trail) ==
    [tag |-> tag, lead |-> lead, body |-> body, trail |-> trail]

\* len(content)
StrLen(c) == c.lead + c.body + c.trail

\* content.strip(); a string of whitespace only strips to the empty string
Strip(c) == [tag |-> c.tag, lead |-> 0, body |-> c.body, trail |-> 0]

\* `not content`: the empty string is falsy
Falsy(c) == StrLen(c) = 0


-----------------------------------------------------------------------------
(* Values that the runtime draws: uuid.uuid4(), datetime.utcnow() and the   *)
(* identity of a newly created dict.  Each is represented by the least      *)
(* number above every such value held by a message that is still            *)
(* referenced: a uuid differs from the ids in use, the clock does not run   *)
(* backwards, a new object is no existing object.  Every list holds its     *)
(* messages in the order of their creation, so the greatest value of a list *)
(* is the one of its last message.                                          *)

Max2(a, b) == IF a >= b THEN a ELSE b

\* the greatest value of a key over the last messages of the lists that reference
\* message dicts
Newest(key) ==
    LET value(m) == IF key = "message_id" THEN m.metadata.message_id ELSE m[key]
        last(l) == IF Len(l) = 0 THEN 0 ELSE value(Last(l))
    IN  Max2(last(chat_history),
             Max2(last(persisted_chat_data.chat_history), last(returned.value)))

uuid4 == 1 + Newest("message_id")

utcnow == 1 + Newest("timestamp")

NewRef == 1 + Newest("ref")

-----------------------------------------------------------------------------
(* ChatMessage (chat_history.py).                                           *)

\* The metadata argument: None, or a mapping without a message_id.  A
\* mapping is described by its extra key: "none" (None or {}), "note" (a short
\* string value), "blob" (a string value of 600KB), "object" (a value that
\* json.dumps cannot serialize): each call passes a mapping of its own.
\* "reused" is one mapping object with a short string value that the caller
\* passes to several calls.
MetadataKinds == {"none", "note", "blob", "object", "reused"}

\* self.metadata = metadata or {}; self.metadata['message_id'] = id: the
\* mapping written to is the caller's when it is not empty, and to_dict
\* passes it on, so every message dict of the list whose metadata is the
\* reused mapping shows the new id
SetMessageId(l, metadata, id) ==
    IF metadata # "reused" THEN l
    ELSE [j \in 1..Len(l) |->
             IF l[j].metadata.extra = "reused"
             THEN [l[j] EXCEPT !.metadata.message_id = id]
             ELSE l[j]]

\* ChatMessage.__init__: the checks in the order of the code, then the fields.
ChatMessage_limitOffByOne(role, content, metadata) ==
    IF role \notin {"user", "assistant"}
    THEN [error |-> "InvalidRole"]
    ELSE IF Falsy(content) \/ Falsy(Strip(content))
    THEN [error |-> "EmptyContent"]
    ELSE IF StrLen(content) >= MAX_CONTENT
    THEN [error |-> "ContentTooLong"]
    ELSE [error |-> "none",
          role |-> role,
          content |-> Strip(content),
          timestamp |-> utcnow,
          metadata |-> [message_id |-> uuid4, extra |-> metadata]]

ChatMessage(role, content, metadata) ==
    IF role \notin {"user", "assistant"}
    THEN [error |-> "InvalidRole"]
    ELSE IF Falsy(content) \/ Falsy(Strip(content))
    THEN [error |-> "EmptyContent"]
    ELSE IF StrLen(content) > MAX_CONTENT
    THEN [error |-> "ContentTooLong"]
    ELSE [error |-> "none",
          role |-> role,
          content |-> Strip(content),
          timestamp |-> utcnow,
          metadata |-> [message_id |-> uuid4, extra |-> metadata]]

\* ChatMessage.to_dict: a new dict (ref is its identity, not one of its keys)
to_dict(message) ==
    [role |-> message.role,
     content |-> message.content,
     timestamp |-> message.timestamp,
     metadata |-> message.metadata,
     ref |-> NewRef]

-----------------------------------------------------------------------------
(* json.dumps as save_to_storage uses it: whether it succeeds, and the      *)
(* length of its result (ASCII text without characters that need escaping). *)

\* json.dumps raises TypeError on a value it cannot serialize
Serializable(messages) ==
    \A i \in 1..Len(messages) : messages[i].metadata.extra # "object"

\* len(json.dumps(metadata)):  {"message_id": "<36 characters>"} plus the extra key
JsonLenMetadata(metadata) ==
    54 + CASE metadata.extra \in {"note", "reused"} -> 16
           [] metadata.extra = "blob" -> 12 + 600 * 1024
           [] OTHER -> 0

\* len(json.dumps(message dict)): the keys role, content, timestamp, metadata
JsonLenMessage(m) ==
    10 + (IF m.role = "user" THEN 4 ELSE 9)
       + 15 + m.content.body
       + 17 + 27
       + 15 + JsonLenMetadata(m.metadata) + 1

\* len(json.dumps({'chat_history': messages}))
JsonLen(messages) ==
    18 + SumTo([i \in 1..Len(messages) |-> JsonLenMessage(messages[i])],
               Len(messages))
       + (IF Len(messages) > 1 THEN 2 * (Len(messages) - 1) ELSE 0)
       + 2

-----------------------------------------------------------------------------
(* StorageHandler (storage_handler.py).  The persisted mapping is           *)
(* [present, shared, chat_history]: present says that the key               *)
(* persisted_chat_data exists; shared says that its 'chat_history' is the   *)
(* very list object that st.session_state.chat_history holds (the code      *)
(* stores the mapping it is given, not a copy), so that an in-place change  *)
(* of that list is a change of the persisted snapshot.  A shared list is    *)
(* held once, in chat_history; the field chat_history of the mapping holds  *)
(* the list only when it is another object.                                 *)

NoPersistedData == [present |-> FALSE, shared |-> FALSE, chat_history |-> << >>]

\* A variant of save_to_storage that refuses a snapshot of exactly 500KB
save_to_storage_rejectsAtLimit(messages, persisted, status) ==
    IF ~Serializable(messages)
    THEN [ok |-> FALSE, warned |-> TRUE, persisted |-> persisted,
          status |-> "degraded"]
    ELSE LET len_json_str == JsonLen(messages) IN
         IF len_json_str >= LIMIT_KB * 1024
         THEN [ok |-> FALSE, warned |-> TRUE, persisted |-> persisted,
               status |-> "unavailable"]
         ELSE [ok |-> TRUE, warned |-> len_json_str > WARN_KB * 1024,
               persisted |-> [present |-> TRUE, shared |-> TRUE,
                              chat_history |-> << >>],
               status |-> "active"]

\* A variant of save_to_storage that drops the persisted mapping when the
\* snapshot cannot be serialized
save_to_storage_dropsOnError(messages, persisted, status) ==
    IF ~Serializable(messages)
    THEN [ok |-> FALSE, warned |-> TRUE, persisted |-> NoPersistedData,
          status |-> "degraded"]
    ELSE LET len_json_str == JsonLen(messages) IN
         IF len_json_str > LIMIT_KB * 1024
         THEN [ok |-> FALSE, warned |-> TRUE, persisted |-> persisted,
               status |-> "unavailable"]
         ELSE [ok |-> TRUE, warned |-> len_json_str > WARN_KB * 1024,
               persisted |-> [present |-> TRUE, shared |-> TRUE,
                              chat_history |-> << >>],
               status |-> "active"]

\* save_to_storage({'chat_history': messages}): the value returned, the
\* warning shown, and the persisted mapping and status afterwards
save_to_storage(messages, persisted, status) ==
    IF ~Serializable(messages)
    THEN [ok |-> FALSE, warned |-> TRUE, persisted |-> persisted,
          status |-> "degraded"]
    ELSE LET len_json_str == JsonLen(messages) IN
         \* data_size_kb = len(json_str) / 1024 is compared with 50 and 500
         IF len_json_str > LIMIT_KB * 1024
         THEN [ok |-> FALSE, warned |-> TRUE, persisted |-> persisted,
               status |-> "unavailable"]
         ELSE [ok |-> TRUE, warned |-> len_json_str > WARN_KB * 1024,
               persisted |-> [present |-> TRUE, shared |-> TRUE,
                              chat_history |-> << >>],
               status |-> "active"]

\* the 'chat_history' of the persisted mapping, given the list that
\* st.session_state.chat_history holds
PersistedList(persisted, messages) ==
    IF persisted.shared THEN messages ELSE persisted.chat_history

\* load_from_storage(): the 'chat_history' of the stored mapping; {} when
\* there is none, of which _initialize_history takes []
load_from_storage ==
    IF persisted_chat_data.present
    THEN PersistedList(persisted_chat_data, chat_history)
    ELSE << >>

\* clear_storage(): deletes the key when it exists
clear_storage(persisted) == NoPersistedData

\* get_storage_status()
get_storage_status == storage_status

-----------------------------------------------------------------------------
(* ChatHistoryManager (chat_history.py).                                    *)

\* 'key' in msg
HasKey(msg, key) == key \in DOMAIN msg

\* isinstance(msg, dict): an element that is not a dict is a record with the
\* key nondict
IsDict(msg) == ~HasKey(msg, "nondict")

\* A variant of the validation loop that keeps every dict with a role
RECURSIVE ValidatedMessages_roleOnly(_, _)
ValidatedMessages_roleOnly(chat_data, n) ==
    IF n = 0 THEN << >>
    ELSE LET msg == chat_data[n]
             validated_messages == ValidatedMessages_roleOnly(chat_data, n - 1)
         IN  IF IsDict(msg) /\ HasKey(msg, "role")
             THEN Append(validated_messages, msg)
             ELSE validated_messages

\* The validation loop of _initialize_history over the first n elements
RECURSIVE ValidatedMessages(_, _)
ValidatedMessages(chat_data, n) ==
    IF n = 0 THEN << >>
    ELSE LET msg == chat_data[n]
             validated_messages == ValidatedMessages(chat_data, n - 1)
         IN  IF IsDict(msg) /\ HasKey(msg, "role") /\ HasKey(msg, "content")
             THEN Append(validated_messages, msg)
             ELSE validated_messages

\* A variant of _initialize_history that lets the AttributeError of
\* stored_data.get escape
_initialize_history_propagates(adapter, persisted, messages) ==
    IF adapter = "raises"
    THEN [chat_history |-> << >>, warned |-> TRUE, raised |-> "none"]
    ELSE IF ~persisted.present
    THEN [chat_history |-> << >>, warned |-> FALSE, raised |-> "none"]
    ELSE IF HasKey(persisted, "odd")
    THEN IF persisted.odd = "not_a_mapping"
         THEN [chat_history |-> << >>, warned |-> TRUE,
               raised |-> "AttributeError"]
         ELSE [chat_history |-> << >>, warned |-> FALSE, raised |-> "none"]
    ELSE LET chat_data == PersistedList(persisted, messages) IN
         [chat_history |-> ValidatedMessages(chat_data, Len(chat_data)),
          warned |-> FALSE, raised |-> "none"]

\* _initialize_history() when 'chat_history' is not in st.session_state: the
\* history, whether the warning of the except branch was shown, and the
\* exception that leaves the method.  adapter is the storage_handler:
\* "StorageHandler", or "raises" for one whose load_from_storage raises.  A
\* stored value of another shape than {'chat_history': [...]} is told by the
\* field odd of the persisted mapping: "not_a_mapping" (stored_data.get
\* raises AttributeError), "no_chat_history_key" (get gives []),
\* "chat_history_not_a_list".
_initialize_history(adapter, persisted, messages) ==
    IF adapter = "raises"
    THEN [chat_history |-> << >>, warned |-> TRUE, raised |-> "none"]
    ELSE IF ~persisted.present
    THEN [chat_history |-> << >>, warned |-> FALSE, raised |-> "none"]
    ELSE IF HasKey(persisted, "odd")
    THEN IF persisted.odd = "not_a_mapping"
         THEN [chat_history |-> << >>, warned |-> TRUE, raised |-> "none"]
         ELSE [chat_history |-> << >>, warned |-> FALSE, raised |-> "none"]
    ELSE LET chat_data == PersistedList(persisted, messages) IN
         [chat_history |-> ValidatedMessages(chat_data, Len(chat_data)),
          warned |-> FALSE, raised |-> "none"]

\* Variants of _cleanup_if_needed with one change each.
\* ... the limit compared off by one
_cleanup_lateLimit(messages) ==
    IF Len(messages) <= MAX_MESSAGES + 1
    THEN messages
    ELSE LET excess_messages == Len(messages) - MAX_MESSAGES
             pairs_to_remove == (excess_messages + 1) \div 2
             messages_to_remove == pairs_to_remove * 2
         IN  DropHead(messages, messages_to_remove)

\* ... the number of pairs rounded down
_cleanup_roundsDown(messages) ==
    IF Len(messages) <= MAX_MESSAGES
    THEN messages
    ELSE LET excess_messages == Len(messages) - MAX_MESSAGES
             pairs_to_remove == excess_messages \div 2
             messages_to_remove == pairs_to_remove * 2
         IN  DropHead(messages, messages_to_remove)

\* ... the excess removed, not whole pairs
_cleanup_removesExcess(messages) ==
    IF Len(messages) <= MAX_MESSAGES
    THEN messages
    ELSE LET excess_messages == Len(messages) - MAX_MESSAGES
         IN  DropHead(messages, excess_messages)

\* ... the newest messages removed (messages[:-messages_to_remove])
_cleanup_removesNewest(messages) ==
    IF Len(messages) <= MAX_MESSAGES
    THEN messages
    ELSE LET excess_messages == Len(messages) - MAX_MESSAGES
             pairs_to_remove == (excess_messages + 1) \div 2
             messages_to_remove == pairs_to_remove * 2
         IN  SubSeq(messages, 1, Len(messages) - messages_to_remove)

\* _cleanup_if_needed: the list st.session_state.chat_history holds afterwards
_cleanup_if_needed(messages) ==
    IF Len(messages) <= MAX_MESSAGES
    THEN messages
    ELSE LET excess_messages == Len(messages) - MAX_MESSAGES
             pairs_to_remove == (excess_messages + 1) \div 2
             messages_to_remove == pairs_to_remove * 2
         IN  DropHead(messages, messages_to_remove)

\* A variant of add_message that appends before it validates
add_message_appendsFirst(role, content, metadata) ==
    LET message == ChatMessage(role, content, metadata) IN
    IF message.error # "none"
    THEN /\ chat_history' =
                Append(chat_history,
                       [role |-> role, content |-> content, timestamp |-> utcnow,
                        metadata |-> [message_id |-> uuid4, extra |-> metadata],
                        ref |-> NewRef])
         /\ last_call' = [op |-> "add_message", raised |-> message.error]
         /\ UNCHANGED <<storageVars, sessionVars, added, returned>>
    ELSE LET d == to_dict(message)
             appended == Append(SetMessageId(chat_history, metadata,
                                             d.metadata.message_id), d)
             cleaned == _cleanup_if_needed(appended)
             afterCleanup ==
                 IF persisted_chat_data.shared /\ Len(appended) > MAX_MESSAGES
                 THEN [persisted_chat_data EXCEPT !.shared = FALSE,
                                                  !.chat_history = appended]
                 ELSE [persisted_chat_data EXCEPT
                          !.chat_history = SetMessageId(@, metadata,
                                                        d.metadata.message_id)]
             saved == save_to_storage(cleaned, afterCleanup, storage_status)
         IN  /\ chat_history' = cleaned
             /\ persisted_chat_data' = saved.persisted
             /\ storage_status' = saved.status
             /\ last_call' = [op |-> "add_message", raised |-> "none"]
             /\ added' = Append(added, [ref |-> d.ref, role |-> d.role])
             /\ returned' = [returned EXCEPT
                                !.value = SetMessageId(@, metadata,
                                                       d.metadata.message_id)]
             /\ UNCHANGED sessionVars

\* A variant of add_message that saves before it evicts
add_message_savesFirst(role, content, metadata) ==
    LET message == ChatMessage(role, content, metadata) IN
    IF message.error # "none"
    THEN /\ last_call' = [op |-> "add_message", raised |-> message.error]
         /\ UNCHANGED <<chat_history, storageVars, sessionVars, added, returned>>
    ELSE LET d == to_dict(message)
             appended == Append(SetMessageId(chat_history, metadata,
                                             d.metadata.message_id), d)
             cleaned == _cleanup_if_needed(appended)
             aliased == [persisted_chat_data EXCEPT
                            !.chat_history = SetMessageId(@, metadata,
                                                          d.metadata.message_id)]
             saved == save_to_storage(appended, aliased, storage_status)
             afterCleanup ==
                 IF saved.persisted.shared /\ Len(appended) > MAX_MESSAGES
                 THEN [saved.persisted EXCEPT !.shared = FALSE,
                                              !.chat_history = appended]
                 ELSE saved.persisted
         IN  /\ chat_history' = cleaned
             /\ persisted_chat_data' = afterCleanup
             /\ storage_status' = saved.status
             /\ last_call' = [op |-> "add_message", raised |-> "none"]
             /\ added' = Append(added, [ref |-> d.ref, role |-> d.role])
             /\ returned' = [returned EXCEPT
                                !.value = SetMessageId(@, metadata,
                                                       d.metadata.message_id)]
             /\ UNCHANGED sessionVars

\* A variant of add_message that takes the message back when the save fails
add_message_rollsBack(role, content, metadata) ==
    LET message == ChatMessage(role, content, metadata) IN
    IF message.error # "none"
    THEN /\ last_call' = [op |-> "add_message", raised |-> message.error]
         /\ UNCHANGED <<chat_history, storageVars, sessionVars, added, returned>>
    ELSE LET d == to_dict(message)
             appended == Append(SetMessageId(chat_history, metadata,
                                             d.metadata.message_id), d)
             cleaned == _cleanup_if_needed(appended)
             afterCleanup ==
                 IF persisted_chat_data.shared /\ Len(appended) > MAX_MESSAGES
                 THEN [persisted_chat_data EXCEPT !.shared = FALSE,
                                                  !.chat_history = appended]
                 ELSE [persisted_chat_data EXCEPT
                          !.chat_history = SetMessageId(@, metadata,
                                                        d.metadata.message_id)]
             saved == save_to_storage(cleaned, afterCleanup, storage_status)
         IN  /\ chat_history' = IF saved.ok THEN cleaned ELSE DropLast(cleaned)
             /\ persisted_chat_data' = saved.persisted
             /\ storage_status' = saved.status
             /\ last_call' = [op |-> "add_message", raised |-> "none"]
             /\ added' = Append(added, [ref |-> d.ref, role |-> d.role])
             /\ returned' = [returned EXCEPT
                                !.value = SetMessageId(@, metadata,
                                                       d.metadata.message_id)]
             /\ UNCHANGED sessionVars

\* add_message(role, content, metadata)
add_message(role, content, metadata) ==
    LET message == ChatMessage(role, content, metadata) IN
    IF message.error # "none"
    THEN \* the constructor raised: nothing after it runs
         /\ last_call' = [op |-> "add_message", raised |-> message.error]
         /\ UNCHANGED <<chat_history, storageVars, sessionVars, added, returned>>
    ELSE LET d == to_dict(message)
             \* list.append changes the list object in place: a persisted
             \* mapping that shares this list holds the new message too
             appended == Append(SetMessageId(chat_history, metadata,
                                             d.metadata.message_id), d)
             \* the slice of _cleanup_if_needed is a new list object: a
             \* mapping that shared the list keeps the list as appended to
             cleaned == _cleanup_if_needed(appended)
             afterCleanup ==
                 IF persisted_chat_data.shared /\ Len(appended) > MAX_MESSAGES
                 THEN [persisted_chat_data EXCEPT !.shared = FALSE,
                                                  !.chat_history = appended]
                 ELSE [persisted_chat_data EXCEPT
                          !.chat_history = SetMessageId(@, metadata,
                                                        d.metadata.message_id)]
             saved == save_to_storage(cleaned, afterCleanup, storage_status)
         IN  /\ chat_history' = cleaned
             /\ persisted_chat_data' = saved.persisted
             /\ storage_status' = saved.status
             /\ last_call' = [op |-> "add_message", raised |-> "none"]
             /\ added' = Append(added, [ref |-> d.ref, role |-> d.role])
             /\ returned' = [returned EXCEPT
                                !.value = SetMessageId(@, metadata,
                                                       d.metadata.message_id)]
             /\ UNCHANGED sessionVars

\* get_chat_history(): list.copy() is a new list of the same message dicts
get_chat_history == chat_history

\* get_message_count()
get_message_count == Len(chat_history)

\* A variant of clear_history that marks the vector store ready
clear_history_setsReady ==
    /\ chat_history' = << >>
    /\ persisted_chat_data' = clear_storage(persisted_chat_data)
    /\ vector_store_ready' = TRUE
    /\ added' = << >>
    /\ last_call' = [op |-> "clear_history", raised |-> "none"]
    /\ UNCHANGED <<storage_status, session_id, document_metadata, returned>>

\* A variant of clear_history that sets the storage status anew
clear_history_resetsStatus ==
    /\ chat_history' = << >>
    /\ persisted_chat_data' = clear_storage(persisted_chat_data)
    /\ storage_status' = "active"
    /\ added' = << >>
    /\ last_call' = [op |-> "clear_history", raised |-> "none"]
    /\ UNCHANGED <<sessionVars, returned>>

\* clear_history()
clear_history ==
    /\ chat_history' = << >>
    /\ persisted_chat_data' = clear_storage(persisted_chat_data)
    /\ added' = << >>
    /\ last_call' = [op |-> "clear_history", raised |-> "none"]
    /\ UNCHANGED <<storage_status, sessionVars, returned>>

\* A variant of the loop that appends each pair it finds (newest first)
RECURSIVE ContextLoop_appends(_, _, _, _, _)
ContextLoop_appends(messages, last_n, i, pairs_collected, recent_exchanges) ==
    IF i >= 1 /\ pairs_collected < last_n
    THEN IF messages[i + 1].role = "assistant" /\ messages[i].role = "user"
         THEN ContextLoop_appends(messages, last_n, i - 2, pairs_collected + 1,
                                  recent_exchanges \o
                                  <<[user |-> messages[i].content,
                                     assistant |-> messages[i + 1].content,
                                     timestamp |-> messages[i + 1].timestamp]>>)
         ELSE ContextLoop_appends(messages, last_n, i - 1, pairs_collected,
                                  recent_exchanges)
    ELSE recent_exchanges

\* A variant of the loop that ends at the first message that is in no pair
RECURSIVE ContextLoop_stops(_, _, _, _, _)
ContextLoop_stops(messages, last_n, i, pairs_collected, recent_exchanges) ==
    IF i >= 1 /\ pairs_collected < last_n
    THEN IF messages[i + 1].role = "assistant" /\ messages[i].role = "user"
         THEN ContextLoop_stops(messages, last_n, i - 2, pairs_collected + 1,
                                <<[user |-> messages[i].content,
                                   assistant |-> messages[i + 1].content,
                                   timestamp |-> messages[i + 1].timestamp]>>
                                    \o recent_exchanges)
         ELSE recent_exchanges
    ELSE recent_exchanges

\* The while loop of get_conversation_context: i is Python's index (from 0)
RECURSIVE ContextLoop(_, _, _, _, _)
ContextLoop(messages, last_n, i, pairs_collected, recent_exchanges) ==
    IF i >= 1 /\ pairs_collected < last_n
    THEN IF messages[i + 1].role = "assistant" /\ messages[i].role = "user"
         THEN ContextLoop(messages, last_n, i - 2, pairs_collected + 1,
                          <<[user |-> messages[i].content,
                             assistant |-> messages[i + 1].content,
                             timestamp |-> messages[i + 1].timestamp]>>
                              \o recent_exchanges)
         ELSE ContextLoop(messages, last_n, i - 1, pairs_collected,
                          recent_exchanges)
    ELSE recent_exchanges

\* The exception of the while loop: messages[i]['timestamp'] of a pair whose
\* answer has no timestamp key raises KeyError
RECURSIVE ContextLoopRaised(_, _, _, _)
ContextLoopRaised(messages, last_n, i, pairs_collected) ==
    IF i >= 1 /\ pairs_collected < last_n
    THEN IF messages[i + 1].role = "assistant" /\ messages[i].role = "user"
         THEN IF HasKey(messages[i + 1], "timestamp")
              THEN ContextLoopRaised(messages, last_n, i - 2,
                                     pairs_collected + 1)
              ELSE "KeyError"
         ELSE ContextLoopRaised(messages, last_n, i - 1, pairs_collected)
    ELSE "none"

\* get_conversation_context(last_n); the topics and the summary drawn from
\* the words of the questions are not part of the model
get_conversation_context(last_n) ==
    [recent_exchanges |->
         ContextLoop(chat_history, last_n, Len(chat_history) - 1, 0, << >>),
     document_context |->
         [document_name |-> IF document_metadata.name = {}
                            THEN {"Unknown"} ELSE document_metadata.name],
     total_messages |-> Len(chat_history)]

-----------------------------------------------------------------------------
(* SessionManager (session_manager.py).  An optional value is a set with at *)
(* most one element; a dict with optional keys is a record of such sets.    *)

EmptyMetadata == [name |-> {}, processed_at |-> {}, size_bytes |-> {}]

\* A variant of handle_new_document_upload that leaves the persisted mapping
handle_new_document_upload_keepsStorage(document_name, document_size) ==
    /\ chat_history' = << >>
    /\ persisted_chat_data' =
           IF persisted_chat_data.shared
           THEN [persisted_chat_data EXCEPT !.shared = FALSE,
                                            !.chat_history = chat_history]
           ELSE persisted_chat_data
    /\ added' = << >>
    /\ document_metadata' = [name |-> {document_name},
                             processed_at |-> {"utcnow"},
                             size_bytes |-> document_size]
    /\ vector_store_ready' = FALSE
    /\ last_call' = [op |-> "handle_new_document_upload", raised |-> "none"]
    /\ UNCHANGED <<storage_status, session_id, returned>>

\* A variant of handle_new_document_upload that starts a new session id
handle_new_document_upload_newSession(document_name, document_size) ==
    /\ chat_history' = << >>
    /\ persisted_chat_data' = clear_storage(persisted_chat_data)
    /\ added' = << >>
    /\ document_metadata' = [name |-> {document_name},
                             processed_at |-> {"utcnow"},
                             size_bytes |-> document_size]
    /\ vector_store_ready' = FALSE
    /\ session_id' = "session_t2_r2"
    /\ last_call' = [op |-> "handle_new_document_upload", raised |-> "none"]
    /\ UNCHANGED <<storage_status, returned>>

\* A variant of handle_new_document_upload that leaves vector_store_ready
handle_new_document_upload_keepsReady(document_name, document_size) ==
    /\ chat_history' = << >>
    /\ persisted_chat_data' = clear_storage(persisted_chat_data)
    /\ added' = << >>
    /\ document_metadata' = [name |-> {document_name},
                             processed_at |-> {"utcnow"},
                             size_bytes |-> document_size]
    /\ last_call' = [op |-> "handle_new_document_upload", raised |-> "none"]
    /\ UNCHANGED <<storage_status, session_id, vector_store_ready, returned>>

\* handle_new_document_upload(document_name, document_size)
handle_new_document_upload(document_name, document_size) ==
    /\ chat_history' = << >>
    /\ persisted_chat_data' = clear_storage(persisted_chat_data)
    /\ added' = << >>
    /\ document_metadata' = [name |-> {document_name},
                             processed_at |-> {"utcnow"},
                             size_bytes |-> document_size]
    /\ vector_store_ready' = FALSE
    /\ last_call' = [op |-> "handle_new_document_upload", raised |-> "none"]
    /\ UNCHANGED <<storage_status, session_id, returned>>

\* A variant of mark_vector_store_ready that starts the conversation anew
mark_vector_store_ready_clears ==
    /\ vector_store_ready' = TRUE
    /\ chat_history' = << >>
    /\ persisted_chat_data' = clear_storage(persisted_chat_data)
    /\ added' = << >>
    /\ last_call' = [op |-> "mark_vector_store_ready", raised |-> "none"]
    /\ UNCHANGED <<storage_status, session_id, document_metadata, returned>>

\* mark_vector_store_ready()
mark_vector_store_ready ==
    /\ vector_store_ready' = TRUE
    /\ last_call' = [op |-> "mark_vector_store_ready", raised |-> "none"]
    /\ UNCHANGED <<chat_history, storageVars, session_id, document_metadata,
                   added, returned>>

\* get_document_name(): the name, or None (the empty set)
get_document_name == document_metadata.name

\* get_session_id()
get_session_id == session_id

\* is_storage_active()
is_storage_active == storage_status = "active"

\* get_session_status()
get_session_status ==
    [session_id |-> session_id,
     storage_status |-> storage_status,
     message_count |-> get_message_count,
     document_loaded |-> document_metadata # EmptyMetadata,
     vector_store_ready |-> vector_store_ready]

-----------------------------------------------------------------------------
(* The session after SessionManager() ran on a new st.session_state: no     *)
(* persisted data, so _initialize_history loads {} and starts empty.        *)

SessionIds == {"session_t1_r1"}

Init ==
    /\ chat_history = << >>
    /\ persisted_chat_data = NoPersistedData
    /\ storage_status = "active"
    /\ session_id \in SessionIds
    /\ document_metadata = EmptyMetadata
    /\ vector_store_ready = FALSE
    /\ last_call = [op |-> "SessionManager", raised |-> "none"]
    /\ added = << >>
    /\ returned = [held |-> FALSE, edits |-> 0, value |-> << >>]

-----------------------------------------------------------------------------
(* The caller of Spec: the application (ChatBot.py).  Its chat interface    *)
(* calls add_message only in a run that has called mark_vector_store_ready  *)
(* before (ChatBot.py lines 145 to 162); clear_history, a document upload   *)
(* and mark_vector_store_ready come at any time.  The first MaxFree         *)
(* messages of a conversation have any role and any metadata; the later     *)
(* ones come in turn, without metadata.                                     *)

\* the role of the next message when the conversation goes in turn
TurnRole == IF Len(chat_history) = 0 \/ Last(chat_history).role = "assistant"
            THEN "user" ELSE "assistant"

\* the text the caller sends next: the texts of a conversation all differ
NextText(lead, body, trail) == Text(Len(added) + 1, lead, body, trail)

\* the roles and the texts (lead, body, trail) that the callers of Spec pass
Roles == {"user", "assistant", "bot"}
Shapes == {<<1, 10, 1>>, <<0, 10, 0>>, <<0, 0, 0>>, <<2, 0, 0>>,
           <<0, MAX_CONTENT + 1, 0>>}

Documents == {<<"a.pdf", {}>>, <<"b.pdf", {1024}>>}

\* a call with a valid message
AddValid ==
    /\ vector_store_ready
    /\ Len(added) < MaxAdds
    /\ \E role \in (IF Len(added) < MaxFree THEN {"user", "assistant"}
                                           ELSE {TurnRole}),
          metadata \in (IF Len(added) < MaxFree THEN {"none", "blob", "object"}
                                               ELSE {"none"}) :
          add_message(role, NextText(1, 10, 1), metadata)

\* a call with an invalid message: a role that is none of the two, no text,
\* whitespace only, over-long text
AddInvalid ==
    /\ vector_store_ready
    /\ \/ add_message("bot", NextText(0, 10, 0), "none")
       \/ \E lead \in {0, 2} : add_message(TurnRole, NextText(lead, 0, 0), "none")
       \/ add_message(TurnRole, NextText(0, MAX_CONTENT + 1, 0), "none")

Upload == \E doc \in Documents : handle_new_document_upload(doc[1], doc[2])

Next ==
    \/ AddValid
    \/ AddInvalid
    \/ clear_history
    \/ Upload
    \/ mark_vector_store_ready

Spec == Init /\ [][Next]_vars

-----------------------------------------------------------------------------
(* The caller of SpecShort: any user of the classes, in short               *)
(* conversations.  Every message has any role; the caller keeps the list    *)
(* that get_chat_history returned and changes it.                           *)

\* a call of get_chat_history(): the caller keeps the returned list
GetChatHistory ==
    /\ returned' = [held |-> TRUE, edits |-> 0, value |-> get_chat_history]
    /\ last_call' = [op |-> "get_chat_history", raised |-> "none"]
    /\ UNCHANGED <<chat_history, storageVars, sessionVars, added>>

\* a dict the caller builds
CallerDict ==
    [role |-> "user", content |-> Text(0, 0, 6, 0), timestamp |-> utcnow,
     metadata |-> [message_id |-> uuid4, extra |-> "none"], ref |-> NewRef]

\* returned.append(dict)
CallerAppend ==
    /\ returned.held /\ returned.edits < MaxCallerEdits
    /\ NewRef <= MaxRefs
    /\ returned' = [returned EXCEPT !.edits = @ + 1,
                                    !.value = Append(@, CallerDict)]
    /\ last_call' = [op |-> "caller", raised |-> "none"]
    /\ UNCHANGED <<chat_history, storageVars, sessionVars, added>>

\* returned.pop()
CallerPop ==
    /\ returned.held /\ returned.edits < MaxCallerEdits
    /\ Len(returned.value) > 0
    /\ returned' = [returned EXCEPT !.edits = @ + 1, !.value = DropLast(@)]
    /\ last_call' = [op |-> "caller", raised |-> "none"]
    /\ UNCHANGED <<chat_history, storageVars, sessionVars, added>>

\* dict[key] = value on the dict object ref: every list that references the
\* object shows the new value
SetContent(l, ref, text) ==
    [j \in 1..Len(l) |-> IF l[j].ref = ref THEN [l[j] EXCEPT !.content = text]
                                          ELSE l[j]]

\* returned[i]['content'] = text
CallerSetContent(i) ==
    /\ returned.held /\ returned.edits < MaxCallerEdits
    /\ i \in 1..Len(returned.value)
    /\ LET ref == returned.value[i].ref
           text == Text(0, 0, 6, 0)
       IN  /\ returned' = [returned EXCEPT !.edits = @ + 1,
                                           !.value = SetContent(@, ref, text)]
           /\ chat_history' = SetContent(chat_history, ref, text)
           /\ persisted_chat_data' =
                  [persisted_chat_data EXCEPT
                      !.chat_history = SetContent(@, ref, text)]
    /\ last_call' = [op |-> "caller", raised |-> "none"]
    /\ UNCHANGED <<storage_status, sessionVars, added>>

ShortAddValid ==
    /\ Len(added) < MaxShortAdds
    /\ NewRef <= MaxRefs
    /\ \E role \in {"user", "assistant"} :
          add_message(role, NextText(0, 10, 0), "none")

NextShort ==
    \/ ShortAddValid
    \/ clear_history
    \/ GetChatHistory
    \/ CallerAppend
    \/ CallerPop
    \/ \E i \in 1..MaxShortAdds : CallerSetContent(i)

SpecShort == Init /\ [][NextShort]_vars

-----------------------------------------------------------------------------
(* The caller of SpecMsg: the first messages of a conversation, with any    *)
(* role, text and metadata.  The texts lie on both sides of each limit of   *)
(* the constructor, with and without surrounding whitespace.                *)

MsgShapes ==
    {<<lead, body, trail>> :
        lead \in {0, 1},
        body \in {0, 1, MAX_CONTENT - 1, MAX_CONTENT, MAX_CONTENT + 1},
        trail \in {0, 1}}

MsgMetadata == {"none", "note"}

MsgAdd ==
    /\ Len(added) < MaxMsgAdds
    /\ \E role \in Roles, shape \in MsgShapes, metadata \in MsgMetadata :
          add_message(role, NextText(shape[1], shape[2], shape[3]), metadata)

NextMsg ==
    \/ MsgAdd
    \/ clear_history

SpecMsg == Init /\ [][NextMsg]_vars

-----------------------------------------------------------------------------
(* The caller of SpecSave: a user of StorageHandler who saves snapshots of  *)
(* its own, of sizes on both sides of the thresholds, beside the calls of   *)
(* the session.                                                             *)

\* the serialized sizes of the snapshots the caller saves, in characters
SnapshotSizes ==
    {10 * 1024, 100 * 1024, 500 * 1024, 500 * 1024 + 1, 600 * 1024}

\* a message dict without content, as the caller builds it
SnapshotDict(extra) ==
    [role |-> "user", content |-> Text(0, 0, 0, 0), timestamp |-> utcnow,
     metadata |-> [message_id |-> uuid4, extra |-> extra], ref |-> NewRef]

\* {'chat_history': [dict]} whose json.dumps has the given length: the
\* content of the dict makes up for the rest
SnapshotOfSize(size) ==
    LET d == SnapshotDict("none") IN
    <<[d EXCEPT !.content = Text(0, 0, size - JsonLen(<<d>>), 0)]>>

\* the snapshots: one of each size, and one that json.dumps refuses
Snapshots ==
    {SnapshotOfSize(size) : size \in SnapshotSizes}
        \cup {<<SnapshotDict("object")>>}

\* storage_handler.save_to_storage({'chat_history': data}) by the caller:
\* the mapping stored holds the caller's list, not the list of the history
SaveSnapshot(data) ==
    LET saved == save_to_storage(data, persisted_chat_data, storage_status) IN
    /\ NewRef <= MaxRefs
    /\ persisted_chat_data' =
           IF saved.ok
           THEN [saved.persisted EXCEPT !.shared = FALSE, !.chat_history = data]
           ELSE saved.persisted
    /\ storage_status' = saved.status
    /\ last_call' = [op |-> "save_to_storage", raised |-> "none",
                     result |-> saved.ok, warned |-> saved.warned]
    /\ UNCHANGED <<chat_history, sessionVars, added, returned>>

\* storage_handler.load_from_storage() by the caller
LoadFromStorage ==
    /\ last_call' = [op |-> "load_from_storage", raised |-> "none"]
    /\ UNCHANGED <<chat_history, storageVars, sessionVars, added, returned>>

SaveAdd ==
    /\ Len(added) < MaxSaveAdds
    /\ NewRef <= MaxRefs
    /\ \E metadata \in {"none", "object"} :
          add_message(TurnRole, NextText(0, 10, 0), metadata)

NextSave ==
    \/ SaveAdd
    \/ \E data \in Snapshots : SaveSnapshot(data)
    \/ LoadFromStorage
    \/ clear_history
    \/ Upload
    \/ mark_vector_store_ready

SpecSave == Init /\ [][NextSave]_vars

-----------------------------------------------------------------------------
(* SpecInit: the construction of the managers on a st.session_state that    *)
(* holds a stored payload and nothing else.  A key that is absent holds the *)
(* empty value of its type; last_call.op = "session_state" tells that       *)
(* 'chat_history' is not in st.session_state.                               *)

\* the k-th element of a stored list: a message dict, a dict with another
\* role, a dict without role, a dict without content, a dict of role and
\* content only, a value that is no dict
StoredKinds == {"message", "other_role", "no_role", "no_content",
                "role_and_content", "not_dict"}

StoredElement(kind, k) ==
    CASE kind = "message" ->
            [role |-> (IF k % 2 = 1 THEN "user" ELSE "assistant"), content |-> Text(k, 0, 10, 0),
             timestamp |-> k, metadata |-> [message_id |-> k, extra |-> "none"],
             ref |-> k]
      [] kind = "other_role" ->
            [role |-> "system", content |-> Text(k, 0, 10, 0), ref |-> k]
      [] kind = "no_role" ->
            [content |-> Text(k, 0, 10, 0), timestamp |-> k, ref |-> k]
      [] kind = "no_content" ->
            [role |-> (IF k % 2 = 1 THEN "user" ELSE "assistant"), timestamp |-> k, ref |-> k]
      [] kind = "role_and_content" ->
            [role |-> (IF k % 2 = 1 THEN "user" ELSE "assistant"), content |-> Text(k, 0, 10, 0),
             ref |-> k]
      [] OTHER -> [nondict |-> "str", ref |-> k]

\* the stored lists of up to MaxStored elements
StoredLists ==
    UNION {{[k \in 1..n |-> StoredElement(kinds[k], k)] :
               kinds \in [1..n -> StoredKinds]} : n \in 0..MaxStored}

\* a stored list of one message more than MAX_MESSAGES
LongStoredList == [k \in 1..(MAX_MESSAGES + 1) |-> StoredElement("message", k)]

\* the values of st.session_state.persisted_chat_data
StoredPayloads ==
    {NoPersistedData}
        \cup {[present |-> TRUE, shared |-> FALSE, chat_history |-> l] :
                 l \in StoredLists \cup {LongStoredList}}
        \cup {[present |-> TRUE, shared |-> FALSE, chat_history |-> << >>,
                odd |-> o] :
                 o \in {"not_a_mapping", "no_chat_history_key",
                        "chat_history_not_a_list"}}

InitStored ==
    /\ chat_history = << >>
    /\ persisted_chat_data \in StoredPayloads
    /\ storage_status = ""
    /\ session_id = ""
    /\ document_metadata = EmptyMetadata
    /\ vector_store_ready = FALSE
    /\ last_call = [op |-> "session_state", raised |-> "none"]
    /\ added = << >>
    /\ returned = [held |-> FALSE, edits |-> 0, value |-> << >>]

\* ChatHistoryManager(storage_handler) with a handler that the caller made
NewChatHistoryManager(adapter) ==
    /\ last_call.op = "session_state"
    /\ LET loaded == _initialize_history(adapter, persisted_chat_data,
                                         chat_history)
       IN  /\ chat_history' = loaded.chat_history
           /\ last_call' = [op |-> "ChatHistoryManager",
                            raised |-> loaded.raised, adapter |-> adapter,
                            warned |-> loaded.warned]
    /\ storage_status' = IF adapter = "StorageHandler" /\ storage_status = ""
                         THEN "active" ELSE storage_status
    /\ UNCHANGED <<persisted_chat_data, sessionVars, added, returned>>

\* SessionManager() on the st.session_state
NewSessionManager ==
    /\ last_call.op = "session_state"
    /\ storage_status' = IF storage_status = "" THEN "active" ELSE storage_status
    /\ LET loaded == _initialize_history("StorageHandler", persisted_chat_data,
                                         chat_history)
       IN  /\ chat_history' = loaded.chat_history
           /\ last_call' = [op |-> "SessionManager", raised |-> loaded.raised,
                            adapter |-> "StorageHandler",
                            warned |-> loaded.warned]
    /\ session_id' \in SessionIds
    /\ document_metadata' = EmptyMetadata
    /\ vector_store_ready' = FALSE
    /\ UNCHANGED <<persisted_chat_data, added, returned>>

\* a manager constructed again (a rerun of the script): every key is there
Rerun ==
    /\ last_call.op # "session_state"
    /\ last_call.raised = "none"
    /\ last_call' = [op |-> "rerun", raised |-> "none"]
    /\ UNCHANGED <<chat_history, storageVars, sessionVars, added, returned>>

\* get_conversation_context(last_n) on the history that was initialized
GetConversationContext ==
    /\ last_call.op # "session_state"
    /\ last_call.raised = "none"
    /\ \E last_n \in 1..MaxLastN :
          last_call' = [op |-> "get_conversation_context",
                        raised |-> ContextLoopRaised(chat_history, last_n,
                                                     Len(chat_history) - 1, 0),
                        last_n |-> last_n]
    /\ UNCHANGED <<chat_history, storageVars, sessionVars, added, returned>>

NextInit ==
    \/ \E adapter \in {"StorageHandler", "raises"} : NewChatHistoryManager(adapter)
    \/ NewSessionManager
    \/ Rerun
    \/ (last_call.op # "session_state" /\ GetChatHistory)
    \/ GetConversationContext

SpecInit == InitStored /\ [][NextInit]_vars

-----------------------------------------------------------------------------
(* The caller of SpecMeta: a user of ChatHistoryManager who passes metadata *)
(* with its messages: none, a mapping made for the call, or one mapping it  *)
(* keeps and passes again.                                                  *)

MetaAdd ==
    /\ Len(added) < MaxMetaAdds
    /\ \E role \in {"user", "assistant"}, metadata \in {"none", "note", "reused"} :
          add_message(role, NextText(0, 10, 0), metadata)

NextMeta ==
    \/ MetaAdd
    \/ clear_history

SpecMeta == Init /\ [][NextMeta]_vars

-----------------------------------------------------------------------------
(* SpecChat: the runs of the script ChatBot.py.  A run reads the history    *)
(* for the sidebar, handles a file that is not the loaded document, marks   *)
(* the vector store ready, adds the question and then either adds the       *)
(* answer or, when there is none, removes the last message if it is a       *)
(* question.  last_call.op tells how far the run is.  The run that asks a   *)
(* question is one that did not clear the history after its sidebar read    *)
(* it.                                                                      *)

\* the question of this run was added and its answer is not there yet
Pending ==
    /\ last_call = [op |-> "add_message", raised |-> "none"]
    /\ Len(chat_history) > 0
    /\ Last(chat_history).role = "user"

\* the questions removed again since the last clear that the history shows:
\* the texts from the first of the history on that are not in it
Failed ==
    IF Len(chat_history) = 0 THEN Len(added)
    ELSE (Len(added) - chat_history[1].content.tag + 1) - Len(chat_history)

\* chat_history = session_mgr.chat_manager.get_chat_history() of the sidebar
Sidebar == ~Pending /\ GetChatHistory

\* the button of the sidebar that clears the history
ClearButton ==
    /\ last_call.op = "get_chat_history"
    /\ clear_history

\* if current_doc != file.name: handle_new_document_upload(file.name, file.size)
ChatUpload ==
    /\ last_call.op = "get_chat_history"
    /\ \E doc \in Documents :
          /\ get_document_name # {doc[1]}
          /\ handle_new_document_upload(doc[1], doc[2])

\* session_mgr.mark_vector_store_ready(), in a run with a file
ChatMark ==
    /\ \/ last_call.op = "handle_new_document_upload"
       \/ last_call.op = "get_chat_history" /\ get_document_name # {}
    /\ mark_vector_store_ready

\* session_mgr.chat_manager.add_message("user", question)
Ask ==
    /\ last_call.op = "mark_vector_store_ready"
    /\ returned.value = chat_history
    /\ Len(added) < MaxChatAdds
    /\ add_message("user", NextText(0, 10, 0), "none")

\* session_mgr.chat_manager.add_message("assistant", output_str)
Answer ==
    /\ Pending
    /\ add_message("assistant", NextText(0, 10, 0), "none")

\* no answer (None, empty after strip, or an exception of the chain):
\* if chat_history and chat_history[-1]['role'] == 'user': chat_history.pop()
AnswerFails ==
    /\ Pending
    /\ Failed < MaxFailed
    /\ \E outcome \in {"falsy", "empty", "exception"} :
          last_call' = [op |-> "answer_failed", raised |-> "none",
                        outcome |-> outcome]
    /\ chat_history' =
           IF Len(chat_history) > 0 /\ Last(chat_history).role = "user"
           THEN DropLast(chat_history) ELSE chat_history
    /\ UNCHANGED <<storageVars, sessionVars, added, returned>>

NextChat ==
    \/ Sidebar
    \/ ClearButton
    \/ ChatUpload
    \/ ChatMark
    \/ Ask
    \/ Answer
    \/ AnswerFails

SpecChat == Init /\ [][NextChat]_vars

-----------------------------------------------------------------------------
(* SpecSessions: the sessions that one process serves.  The variables hold  *)
(* the st.session_state of the session whose script runs.  Init is the      *)
(* first session after its call of get_session_manager(), which constructed *)
(* the SessionManager that st.cache_resource keeps for the process.  A key  *)
(* that is absent holds the empty value of its type; the keys that          *)
(* SessionManager() writes are written together, so they are in             *)
(* st.session_state exactly when session_id is.                             *)

\* 'session_id' in st.session_state (and with it the other keys)
InSessionState == session_id # ""

\* a browser session begins: its st.session_state is new
NewSessionState ==
    /\ chat_history' = << >>
    /\ persisted_chat_data' = NoPersistedData
    /\ storage_status' = ""
    /\ session_id' = ""
    /\ document_metadata' = EmptyMetadata
    /\ vector_store_ready' = FALSE
    /\ last_call' = [op |-> "session_state", raised |-> "none"]
    /\ added' = << >>
    /\ returned' = [held |-> FALSE, edits |-> 0, value |-> << >>]

\* session_mgr = get_session_manager() at the start of a script run: the
\* cache holds the SessionManager of the first call, SessionManager() does
\* not run again and st.session_state is left as it is
get_session_manager ==
    /\ last_call.op # "get_session_manager"
    /\ last_call' = [op |-> "get_session_manager", raised |-> "none"]
    /\ UNCHANGED <<chat_history, storageVars, sessionVars, added, returned>>

\* the reads of the run, after get_session_manager() and each other
ReadOps == {"get_session_status", "get_document_name", "get_chat_history"}

Reading ==
    /\ last_call.op \in {"get_session_manager"} \cup ReadOps
    /\ last_call.raised = "none"

\* status = session_mgr.get_session_status(): st.session_state.session_id
\* raises when the key is absent
SessionStatus ==
    /\ Reading
    /\ last_call' = [op |-> "get_session_status",
                     raised |-> IF InSessionState THEN "none"
                                ELSE "AttributeError"]
    /\ UNCHANGED <<chat_history, storageVars, sessionVars, added, returned>>

\* session_mgr.get_document_name(): st.session_state.document_metadata
\* raises when the key is absent
SessionDocumentName ==
    /\ Reading
    /\ last_call' = [op |-> "get_document_name",
                     raised |-> IF InSessionState THEN "none"
                                ELSE "AttributeError"]
    /\ UNCHANGED <<chat_history, storageVars, sessionVars, added, returned>>

\* session_mgr.chat_manager.get_chat_history(): st.session_state.chat_history
\* raises when the key is absent
SessionChatHistory ==
    /\ Reading
    /\ IF InSessionState THEN GetChatHistory
       ELSE /\ last_call' = [op |-> "get_chat_history",
                             raised |-> "AttributeError"]
            /\ UNCHANGED <<chat_history, storageVars, sessionVars, added,
                           returned>>

\* the rest of a run whose reads did not raise
SessionWork ==
    /\ last_call.op \notin {"session_state", "get_session_manager"}
    /\ last_call.raised = "none"
    /\ \/ Upload
       \/ mark_vector_store_ready
       \/ clear_history
       \/ /\ vector_store_ready
          /\ Len(added) < MaxSessionAdds
          /\ NewRef <= MaxRefs
          /\ add_message(TurnRole, NextText(0, 10, 0), "none")

NextSessions ==
    \/ NewSessionState
    \/ get_session_manager
    \/ SessionStatus
    \/ SessionDocumentName
    \/ SessionChatHistory
    \/ SessionWork

SpecSessions == Init /\ [][NextSessions]_vars

-----------------------------------------------------------------------------
(* Properties.                                                              *)

\* a step in which add_message appended a message
SuccessfulAdd == Len(added') = Len(added) + 1

\* the role of the k-th message of a conversation that alternates from a question
RoleInTurn(k) == IF k % 2 = 1 THEN "user" ELSE "assistant"

\* C1: starting from an empty history, after every add_message, clear_history
\* and handle_new_document_upload call the message count is at most 50.
C1_CountAtMostMax == get_message_count <= MAX_MESSAGES

\* more than 50 messages were added and the history is full
C1_Witness == Len(added) > MAX_MESSAGES /\ get_message_count = MAX_MESSAGES

\* C2 as stated: an add_message call that brings a history of at most 50
\* messages above 50 leaves exactly 50 messages.
C2_Original ==
    [][(SuccessfulAdd /\ Len(chat_history) <= MAX_MESSAGES
                      /\ Len(chat_history) + 1 > MAX_MESSAGES)
          => Len(chat_history') = MAX_MESSAGES]_vars

\* C2 as amended: an add_message call that brings a history of at most 50
\* messages above 50 leaves exactly 49 messages: the 51 messages less the one
\* pair that the eviction removes.
C2_EvictionLeaves49 ==
    [][(SuccessfulAdd /\ Len(chat_history) <= MAX_MESSAGES
                      /\ Len(chat_history) + 1 > MAX_MESSAGES)
          => Len(chat_history') = MAX_MESSAGES + 1 - 2]_vars

\* the 51st message was added and evicted a pair
C2_Witness == Len(added) = MAX_MESSAGES + 1 /\ Len(chat_history) = MAX_MESSAGES - 1

\* the messages added since the last clear alternate user, assistant
Alternating == \A k \in 1..Len(added) : added[k].role = RoleInTurn(k)

\* C3: when the messages are added from an empty history in strict
\* alternation (Question i, Answer i), the history always starts with a user
\* message, alternates, and keeps every answer next to its question; after
\* 2n appends, n >= 25, it holds exactly the 50 messages of the pairs
\* n-25 .. n-1.  (The k-th text of a conversation has tag k: Question i is
\* 2i+1 and Answer i is 2i+2.)
C3_AlternationKept ==
    Alternating =>
        /\ \A i \in 1..Len(chat_history) :
              /\ chat_history[i].role = RoleInTurn(i)
              /\ i % 2 = 0 =>
                    chat_history[i].content.tag = chat_history[i - 1].content.tag + 1
        /\ (Len(added) % 2 = 0 /\ Len(added) >= MAX_MESSAGES) =>
              /\ get_message_count = MAX_MESSAGES
              /\ \A i \in 1..Len(chat_history) :
                    chat_history[i].content.tag = Len(added) - MAX_MESSAGES + i

\* after the 52nd append: 50 messages, Question 0 and Answer 0 (texts 1 and 2)
\* absent, Question 1 (text 3) first
C3_Witness ==
    /\ Alternating
    /\ Len(added) = MAX_MESSAGES + 2
    /\ get_message_count = MAX_MESSAGES
    /\ \A i \in 1..Len(chat_history) : chat_history[i].content.tag \notin {1, 2}
    /\ chat_history[1].content.tag = 3 /\ chat_history[1].role = "user"

\* C4: the history is a contiguous suffix, in insertion order, of the
\* messages added since the last clear, and the number of messages evicted
\* from the head is even, whatever their roles.
C4_EvenSuffix ==
    LET evicted == Len(added) - Len(chat_history) IN
    /\ evicted >= 0
    /\ evicted % 2 = 0
    /\ \A i \in 1..Len(chat_history) :
          /\ chat_history[i].ref = added[evicted + i].ref
          /\ chat_history[i].role = added[evicted + i].role

\* messages were evicted, and the first two were no (user, assistant) pair
C4_Witness ==
    /\ Len(added) > Len(chat_history)
    /\ added[1].role = "assistant" /\ added[2].role = "assistant"

\* C5: an add_message call that fails validation changes nothing: the
\* history, the persisted snapshot and the storage status are as before.
C5_FailedAddChangesNothing ==
    [][/\ (last_call'.op = "add_message" /\ last_call'.raised # "none")
          => UNCHANGED <<chat_history, persisted_chat_data, storage_status>>
       /\ \A role \in Roles, shape \in Shapes :
             LET content == NextText(shape[1], shape[2], shape[3]) IN
             (/\ last_call'.op = "add_message"
              /\ \/ role \notin {"user", "assistant"}
                 \/ StrLen(Strip(content)) = 0
                 \/ StrLen(content) > MAX_CONTENT
              /\ add_message(role, content, "none"))
             => /\ last_call'.raised \in {"InvalidRole", "EmptyContent",
                                          "ContentTooLong"}
                /\ UNCHANGED <<chat_history, persisted_chat_data,
                               storage_status>>]_vars

\* a call failed on a full history with a persisted snapshot
C5_Witness ==
    /\ last_call.op = "add_message" /\ last_call.raised = "ContentTooLong"
    /\ Len(chat_history) = MAX_MESSAGES
    /\ persisted_chat_data.present

\* C6 as stated: message construction succeeds if and only if the role is
\* user or assistant and the content, after trimming, has between 1 and 10000
\* characters; otherwise it fails with InvalidRole, EmptyContent or
\* ContentTooLong respectively.
C6_Original ==
    [][\A role \in Roles, shape \in MsgShapes, metadata \in MsgMetadata :
          LET content == NextText(shape[1], shape[2], shape[3])
              trimmed == StrLen(Strip(content))
          IN  add_message(role, content, metadata) =>
                /\ last_call'.raised = "none" <=>
                      /\ role \in {"user", "assistant"}
                      /\ trimmed >= 1 /\ trimmed <= MAX_CONTENT
                /\ last_call'.raised = "InvalidRole" =>
                      role \notin {"user", "assistant"}
                /\ last_call'.raised = "EmptyContent" => trimmed = 0
                /\ last_call'.raised = "ContentTooLong" => trimmed > MAX_CONTENT
      ]_vars

\* C6 as amended: message construction succeeds if and only if the role is
\* user or assistant, the content is not empty after trimming, and the
\* content as passed, before trimming, has at most 10000 characters; otherwise
\* it fails with InvalidRole, EmptyContent or ContentTooLong respectively, and
\* on success the message holds the trimmed content.
C6_LengthBeforeTrimming ==
    [][\A role \in Roles, shape \in MsgShapes, metadata \in MsgMetadata :
          LET content == NextText(shape[1], shape[2], shape[3])
              trimmed == StrLen(Strip(content))
          IN  add_message(role, content, metadata) =>
                /\ last_call'.raised = "none" <=>
                      /\ role \in {"user", "assistant"}
                      /\ trimmed >= 1 /\ StrLen(content) <= MAX_CONTENT
                /\ last_call'.raised = "InvalidRole" =>
                      role \notin {"user", "assistant"}
                /\ last_call'.raised = "EmptyContent" => trimmed = 0
                /\ last_call'.raised = "ContentTooLong" =>
                      StrLen(content) > MAX_CONTENT
                /\ last_call'.raised = "none" =>
                      /\ Last(chat_history').content = Strip(content)
                      /\ Last(chat_history').role = role
      ]_vars

\* a message of 10000 characters was accepted and a longer one then refused
C6_Witness ==
    /\ Len(chat_history) = 1
    /\ chat_history[1].content.body = MAX_CONTENT
    /\ last_call.raised = "ContentTooLong"

\* C7: for every valid add_message call, whatever the outcome of the save,
\* the call does not raise and the new message is the last element of the
\* history afterwards; the history is the one that append and eviction give,
\* and the outcome of the save shows in the storage status alone.
C7_AppendSurvivesSave ==
    [][\A role \in {"user", "assistant"}, metadata \in {"none", "blob", "object"} :
          LET content == NextText(1, 10, 1) IN
          (last_call'.op = "add_message" /\ add_message(role, content, metadata))
          => /\ last_call'.raised = "none"
             /\ Len(chat_history') >= 1
             /\ Last(chat_history').role = role
             /\ Last(chat_history').content = Strip(content)
             /\ Last(chat_history').metadata.extra = metadata
             /\ chat_history' =
                   _cleanup_if_needed(Append(chat_history, Last(chat_history')))
             /\ storage_status' \in {"active", "degraded", "unavailable"}
             /\ storage_status' = "active" =>
                   (persisted_chat_data'.present /\ persisted_chat_data'.shared)
      ]_vars

\* a message was added although its save was refused for its size
C7_Witness ==
    /\ last_call = [op |-> "add_message", raised |-> "none"]
    /\ storage_status = "unavailable"
    /\ Len(chat_history) >= 2
    /\ Last(chat_history).metadata.extra = "blob"

\* C8 as stated: no change that the caller makes to the value that
\* get_chat_history() returned (adding or removing entries, changing a field
\* of a returned message) changes the history or a later get_chat_history().
C8_ReturnedIsSnapshot ==
    [][last_call'.op = "caller" =>
          /\ chat_history' = chat_history
          /\ get_chat_history' = get_chat_history]_vars

\* the position in the history of the message an exchange took its timestamp from
PositionOf(exchange) ==
    CHOOSE p \in 1..Len(chat_history) :
        chat_history[p].timestamp = exchange.timestamp

\* C9: get_conversation_context(k) returns at most k recent_exchanges; each
\* is built from two adjacent messages of the history, a user message and the
\* assistant message after it; no message is used twice and the entries are
\* in increasing position.
C9_ContextPairs ==
    \A k \in 0..MaxLastN :
        LET exchanges == get_conversation_context(k).recent_exchanges IN
        /\ Len(exchanges) <= k
        /\ \A j \in 1..Len(exchanges) :
              /\ \E p \in 1..Len(chat_history) :
                    chat_history[p].timestamp = exchanges[j].timestamp
              /\ LET p == PositionOf(exchanges[j]) IN
                 /\ p >= 2
                 /\ chat_history[p].role = "assistant"
                 /\ chat_history[p - 1].role = "user"
                 /\ exchanges[j].assistant = chat_history[p].content
                 /\ exchanges[j].user = chat_history[p - 1].content
                 /\ j > 1 => PositionOf(exchanges[j - 1]) + 2 <= p

\* two pairs in the history; last_n below and above the number of pairs
C9_Witness ==
    /\ Len(chat_history) = 4
    /\ [i \in 1..4 |-> chat_history[i].role]
           = <<"user", "assistant", "user", "assistant">>
    /\ Len(get_conversation_context(1).recent_exchanges) = 1
    /\ Len(get_conversation_context(3).recent_exchanges) = 2

\* C10: right after handle_new_document_upload(name, size), from any
\* reachable state, the message count is 0, vector_store_ready is false and
\* get_document_name() returns name.
C10_UploadResets ==
    [][\A doc \in Documents :
          handle_new_document_upload(doc[1], doc[2])
          => /\ get_message_count' = 0
             /\ vector_store_ready' = FALSE
             /\ get_document_name' = {doc[1]}
             /\ get_session_status'.message_count = 0
             /\ get_session_status'.vector_store_ready = FALSE
      ]_vars

\* an upload replaced another document
C10_Witness ==
    /\ last_call.op = "handle_new_document_upload"
    /\ get_document_name = {"b.pdf"}
    /\ document_metadata.size_bytes = {1024}
    /\ get_message_count = 0 /\ ~vector_store_ready

\* C11: history is scoped to the loaded document.  A document upload leaves
\* the history and the snapshot that a later initialize would load empty
\* (also when the last save before it was rejected or failed), and every
\* other step brings no message into the history or the snapshot except the
\* one that a successful add_message of that step appended: so every message
\* of either was added after the most recent upload.
C11_HistoryScopedToDocument ==
    [][/\ last_call'.op = "handle_new_document_upload" =>
             /\ chat_history' = << >>
             /\ load_from_storage' = << >>
             /\ ~persisted_chat_data'.present
       /\ LET appended == IF SuccessfulAdd
                          THEN Append(chat_history, Last(chat_history'))
                          ELSE chat_history
              dropped == Len(appended) - Len(chat_history')
          IN  /\ dropped >= 0
              /\ chat_history' = DropHead(appended, dropped)
              /\ load_from_storage' \in
                    {<< >>, load_from_storage, chat_history', appended}
      ]_vars

\* a document was uploaded when the last save had been rejected for its size
C11_Witness ==
    /\ last_call.op = "handle_new_document_upload"
    /\ storage_status = "unavailable"
    /\ chat_history = << >>
    /\ load_from_storage = << >>

\* C12: save_to_storage of a serializable snapshot returns true, replaces
\* the persisted snapshot and sets the status to active if and only if the
\* serialized size is at most 500KB; above 500KB it returns false and sets
\* the status to unavailable (and keeps the persisted mapping).  600KB is
\* refused; 100KB and 10KB are saved.
C12_SaveThreshold ==
    [][\A data \in Snapshots :
          (/\ last_call'.op = "save_to_storage"
           /\ Serializable(data)
           /\ SaveSnapshot(data)) =>
             LET size == JsonLen(data) IN
             /\ size <= 500 * 1024 =>
                   /\ last_call'.result = TRUE
                   /\ load_from_storage' = data
                   /\ storage_status' = "active"
             /\ size > 500 * 1024 =>
                   /\ last_call'.result = FALSE
                   /\ storage_status' = "unavailable"
                   /\ persisted_chat_data' = persisted_chat_data
             /\ size = 600 * 1024 => last_call'.result = FALSE
             /\ size \in {10 * 1024, 100 * 1024} => last_call'.result = TRUE
      ]_vars

\* a snapshot of exactly 500KB replaced the persisted one, beside a history
C12_Witness ==
    /\ last_call.op = "save_to_storage"
    /\ last_call.result = TRUE
    /\ storage_status = "active"
    /\ JsonLen(load_from_storage) = 500 * 1024
    /\ Len(chat_history) >= 1

\* the save that add_message made in this step was refused for the size of
\* the snapshot
AddRejectedForSize ==
    /\ last_call'.op = "add_message" /\ SuccessfulAdd
    /\ Serializable(chat_history')
    /\ JsonLen(chat_history') > 500 * 1024

\* C13 as stated: when the save made by add_message is rejected for size,
\* the status becomes unavailable and the persisted snapshot is left as it
\* was before the call: load_from_storage returns the same messages as it
\* would have returned before the call.
C13_RejectedSaveKeepsSnapshot ==
    [][AddRejectedForSize =>
          /\ storage_status' = "unavailable"
          /\ load_from_storage' = load_from_storage]_vars

\* C14: once created, session_id never changes: every get_session_id() and
\* get_session_status() call of a session returns the same session_id, across
\* add_message, clear_history, handle_new_document_upload and
\* mark_vector_store_ready calls.
C14_SessionIdFixed ==
    [][/\ session_id' = session_id
       /\ get_session_id' = get_session_id
       /\ get_session_status'.session_id = get_session_id
       /\ get_session_status'.session_id = get_session_status.session_id
      ]_vars

\* a document was uploaded and made ready, and messages were added
C14_Witness ==
    /\ get_document_name # {}
    /\ vector_store_ready
    /\ Len(chat_history) >= 2
    /\ last_call.op = "clear_history" \/ last_call.op = "add_message"
    /\ get_session_id \in SessionIds
    /\ get_session_status.session_id = get_session_id

\* C15: mark_vector_store_ready() sets vector_store_ready to true and leaves
\* the history, the persisted snapshot, the storage status, document_metadata
\* and session_id unchanged.
C15_MarkReadyFrame ==
    [][last_call'.op = "mark_vector_store_ready" =>
          /\ vector_store_ready' = TRUE
          /\ get_session_status'.vector_store_ready = TRUE
          /\ chat_history' = chat_history
          /\ persisted_chat_data' = persisted_chat_data
          /\ load_from_storage' = load_from_storage
          /\ storage_status' = storage_status
          /\ document_metadata' = document_metadata
          /\ session_id' = session_id
      ]_vars

\* the vector store was marked ready in the middle of a conversation with a
\* persisted snapshot
C15_Witness ==
    /\ last_call.op = "mark_vector_store_ready"
    /\ vector_store_ready
    /\ Len(chat_history) >= 1
    /\ persisted_chat_data.present
    /\ get_document_name # {}

\* a step in which a manager was constructed on a st.session_state without
\* 'chat_history'
Initialized ==
    /\ last_call.op = "session_state"
    /\ last_call'.op \in {"ChatHistoryManager", "SessionManager"}

\* the stored value is a mapping whose chat_history is a sequence
StoredSequence ==
    persisted_chat_data.present /\ ~HasKey(persisted_chat_data, "odd")

\* an element that contains both a role and a content key
HasRoleAndContent(msg) == {"role", "content"} \subseteq DOMAIN msg

\* C16: initialize, given a stored chat_history that is a sequence, keeps
\* exactly the elements that contain both a role and a content key, in their
\* stored order, and drops the others; a stored chat_history that is not a
\* sequence gives an empty history.
C16_InitializeFilters ==
    [][(Initialized /\ last_call'.adapter = "StorageHandler") =>
          /\ StoredSequence =>
                chat_history' = SelectSeq(persisted_chat_data.chat_history,
                                          HasRoleAndContent)
          /\ (/\ persisted_chat_data.present
              /\ HasKey(persisted_chat_data, "odd")
              /\ persisted_chat_data.odd = "chat_history_not_a_list") =>
                chat_history' = << >>
      ]_vars

\* a stored list of three elements was loaded: the first and the last, a
\* message with another role and a message, were kept, the one between dropped
C16_Witness ==
    /\ last_call.op = "SessionManager"
    /\ Len(persisted_chat_data.chat_history) = 3
    /\ Len(chat_history) = 2
    /\ chat_history[1] = persisted_chat_data.chat_history[1]
    /\ chat_history[1].role = "system"
    /\ chat_history[2] = persisted_chat_data.chat_history[3]
    /\ ~HasKey(persisted_chat_data.chat_history[2], "role")
    /\ IsDict(persisted_chat_data.chat_history[2])

\* C17: load failures are absorbed: for any stored payload (missing,
\* malformed, not a mapping) and any exception raised by the storage adapter,
\* initialize does not raise and the history is a sequence of stored
\* elements afterwards; on a failure it is empty.
C17_LoadFailuresAbsorbed ==
    [][Initialized =>
          /\ last_call'.raised = "none"
          /\ \A i \in 1..Len(chat_history') :
                \E j \in 1..Len(persisted_chat_data.chat_history) :
                   chat_history'[i] = persisted_chat_data.chat_history[j]
          /\ (\/ last_call'.adapter = "raises"
              \/ ~persisted_chat_data.present
              \/ HasKey(persisted_chat_data, "odd")) =>
                chat_history' = << >>
          /\ persisted_chat_data' = persisted_chat_data
      ]_vars

\* a manager was constructed on a stored value that is no mapping
C17_Witness ==
    /\ last_call.op = "SessionManager"
    /\ last_call.raised = "none"
    /\ last_call.warned
    /\ persisted_chat_data.present
    /\ HasKey(persisted_chat_data, "odd")
    /\ persisted_chat_data.odd = "not_a_mapping"
    /\ chat_history = << >>

\* a step that made a save: a save_to_storage call of the caller, or the
\* one of an add_message that appended its message
SaveMade ==
    \/ last_call'.op = "save_to_storage"
    \/ last_call'.op = "add_message" /\ SuccessfulAdd

\* ... and the snapshot was serializable and of at most 500KB
SaveSucceeded ==
    \/ last_call'.op = "save_to_storage" /\ last_call'.result
    \/ /\ last_call'.op = "add_message" /\ SuccessfulAdd
       /\ Serializable(chat_history')
       /\ JsonLen(chat_history') <= 500 * 1024

\* C18: the storage status is sticky: it always holds one of active,
\* degraded, unavailable and starts as active; only a step that makes a save
\* changes it (no load of the model does), so it stays unchanged across
\* clear_history, handle_new_document_upload, mark_vector_store_ready and
\* read-only calls; a rejected or failed save leaves it non-active, it stays
\* non-active until the next successful save, and every successful save sets
\* it to active.
C18_StatusSticky ==
    /\ storage_status = "active"
    /\ [](storage_status \in {"active", "degraded", "unavailable"})
    /\ [][/\ storage_status' # storage_status => SaveMade
          /\ last_call'.op \in {"clear_history", "handle_new_document_upload",
                                "mark_vector_store_ready", "load_from_storage"}
                => storage_status' = storage_status
          /\ (SaveMade /\ ~SaveSucceeded) => storage_status' # "active"
          /\ (storage_status # "active" /\ ~SaveSucceeded)
                => storage_status' # "active"
          /\ SaveSucceeded => storage_status' = "active"
         ]_vars

\* after a failed save the history was cleared, a document uploaded and the
\* vector store marked ready, and the status is still degraded
C18_Witness ==
    /\ storage_status = "degraded"
    /\ last_call.op = "mark_vector_store_ready"
    /\ get_document_name # {}
    /\ chat_history = << >>
    /\ ~persisted_chat_data.present

\* C19 as stated: in every reachable state, any two distinct messages of
\* the history that add_message added have different metadata message_id
\* values, also when the caller supplies a metadata mapping, possibly the same
\* mapping for several calls.
C19_MessageIdsUnique ==
    \A i, j \in 1..Len(chat_history) :
        i # j => chat_history[i].metadata.message_id
                    # chat_history[j].metadata.message_id

\* the positions of the assistant messages of the pairs that a scan of the
\* first n messages from the tail finds, in increasing order
RECURSIVE PairsFromTail(_, _)
PairsFromTail(messages, n) ==
    IF n < 2 THEN << >>
    ELSE IF messages[n].role = "assistant" /\ messages[n - 1].role = "user"
         THEN Append(PairsFromTail(messages, n - 2), n)
         ELSE PairsFromTail(messages, n - 1)

\* C20: in get_conversation_context(k), a message that forms no adjacent
\* (user, assistant) pair is skipped without being counted and without
\* ending the backward scan: the result holds the min(k, P) most recent
\* pairs, P being the number of pairs that a scan of the whole history from
\* the tail finds.
C20_UnpairedSkipped ==
    \A k \in 0..MaxLastN :
        LET exchanges == get_conversation_context(k).recent_exchanges
            pairs == PairsFromTail(chat_history, Len(chat_history))
            P == Len(pairs)
            n == IF k < P THEN k ELSE P
        IN  /\ Len(exchanges) = n
            /\ \A j \in 1..n :
                  LET p == pairs[P - n + j] IN
                  exchanges[j] = [user |-> chat_history[p - 1].content,
                                  assistant |-> chat_history[p].content,
                                  timestamp |-> chat_history[p].timestamp]

\* a question without answer lies between two pairs, and both are collected
C20_Witness ==
    /\ Len(chat_history) = 5
    /\ [i \in 1..5 |-> chat_history[i].role]
           = <<"user", "assistant", "user", "user", "assistant">>
    /\ Len(get_conversation_context(3).recent_exchanges) = 2
    /\ get_conversation_context(3).recent_exchanges[1].user
           = chat_history[1].content
    /\ Len(get_conversation_context(1).recent_exchanges) = 1

\* C21: every history mutation is persisted after it: after each
\* add_message whose save succeeded, the chat_history of the persisted
\* snapshot equals the history in memory (the sequence after eviction, of at
\* most 50 messages), and after clear_history no snapshot is persisted.
C21_MutationsPersisted ==
    [][/\ (last_call'.op = "add_message" /\ SaveSucceeded) =>
             /\ persisted_chat_data'.present
             /\ load_from_storage' = chat_history'
             /\ Len(load_from_storage') <= 50
             /\ Last(load_from_storage').ref = Last(added').ref
       /\ last_call'.op = "clear_history" =>
             /\ ~persisted_chat_data'.present
             /\ load_from_storage' = << >>
             /\ chat_history' = << >>
      ]_vars

\* the save of an add_message that evicted succeeded
C21_Witness ==
    /\ last_call = [op |-> "add_message", raised |-> "none"]
    /\ Len(added) = MAX_MESSAGES + 1
    /\ Len(chat_history) < MAX_MESSAGES
    /\ storage_status = "active"
    /\ persisted_chat_data.present
    /\ load_from_storage = chat_history

\* C22 as stated: after initialize completes, the history length is at
\* most 50, whatever the stored snapshot holds (also a stored chat_history of
\* more than 50 valid records).
C22_InitializeAtMostMax ==
    last_call.op \in {"ChatHistoryManager", "SessionManager"}
        => get_message_count <= 50

\* C23: vector_store_ready is true only if mark_vector_store_ready has been
\* called after the most recent handle_new_document_upload: it is false in
\* the initial state and right after every upload, only
\* mark_vector_store_ready sets it to true, and only an upload sets it to
\* false.
C23_ReadyOnlyAfterMark ==
    /\ vector_store_ready = FALSE
    /\ [][/\ last_call'.op = "handle_new_document_upload"
                => vector_store_ready' = FALSE
          /\ (~vector_store_ready /\ vector_store_ready')
                => last_call'.op = "mark_vector_store_ready"
          /\ (vector_store_ready /\ ~vector_store_ready')
                => last_call'.op = "handle_new_document_upload"
          /\ get_session_status'.vector_store_ready = vector_store_ready'
         ]_vars

\* the vector store of the second document was marked ready, the history
\* being empty
C23_Witness ==
    /\ vector_store_ready
    /\ last_call.op = "mark_vector_store_ready"
    /\ get_document_name = {"b.pdf"}
    /\ chat_history = << >>
    /\ storage_status = "degraded"

\* C24: when the snapshot cannot be serialized (a metadata value is not
\* serializable), save_to_storage does not raise, returns false, sets the
\* status to degraded and leaves the persisted mapping as the call found it;
\* when the save is the one of add_message, the call does not raise either
\* and the message that caused the failure stays in the history.  (The
\* mapping that the save of add_message finds is the one after the append: a
\* mapping that holds the list of the history shows the appended message.)
C24_SerializationFailure ==
    [][/\ \A data \in Snapshots :
             (/\ last_call'.op = "save_to_storage"
              /\ ~Serializable(data)
              /\ SaveSnapshot(data)) =>
                /\ last_call'.raised = "none"
                /\ last_call'.result = FALSE
                /\ storage_status' = "degraded"
                /\ persisted_chat_data' = persisted_chat_data
                /\ load_from_storage' = load_from_storage
       /\ (/\ last_call'.op = "add_message" /\ SuccessfulAdd
           /\ ~Serializable(chat_history')) =>
                /\ last_call'.raised = "none"
                /\ storage_status' = "degraded"
                /\ Last(chat_history').ref = Last(added').ref
                /\ persisted_chat_data'.present = persisted_chat_data.present
                /\ ~persisted_chat_data.shared =>
                      persisted_chat_data' = persisted_chat_data
                /\ persisted_chat_data.shared =>
                      /\ persisted_chat_data'.shared
                      /\ load_from_storage' =
                            Append(load_from_storage, Last(chat_history'))
      ]_vars

\* a message whose metadata cannot be serialized was added after a saved one
C24_Witness ==
    /\ last_call = [op |-> "add_message", raised |-> "none"]
    /\ storage_status = "degraded"
    /\ Len(chat_history) = 2
    /\ Last(chat_history).metadata.extra = "object"
    /\ chat_history[1].metadata.extra = "none"
    /\ persisted_chat_data.present

\* the history before the question of the run: the list that the sidebar read
BeforeQuestion == returned.value

\* C25 as stated: in the chat flow, when answer generation fails or yields
\* an empty answer after the question was added with add_message, the
\* question is removed again, so that the history holds the same messages as
\* before the question was asked, also when it held 50 messages then.
C25_FailedAnswerRestores ==
    [][last_call'.op = "answer_failed" =>
          /\ chat_history' = BeforeQuestion
          /\ get_message_count' = Len(BeforeQuestion)]_vars

\* C26 as stated: for every session that the process serves, also one that
\* starts after another one created the cached SessionManager, the state of
\* the session is initialized before get_session_status, get_chat_history or
\* get_document_name reads it (the read does not raise), and the session has
\* a session_id of its own.
C26_SessionInitializedBeforeRead ==
    last_call.op \in ReadOps =>
        /\ last_call.raised = "none"
        /\ session_id \in SessionIds

\* C27 as stated: get_conversation_context does not fail on a history that
\* initialize produced: every record that initialize accepts (it checks the
\* role and content keys only) can be read by get_conversation_context,
\* which also reads the timestamp of each paired answer.
C27_ContextReadsInitialized ==
    last_call.op = "get_conversation_context" => last_call.raised = "none"

=============================================================================
